---- MODULE Spec2Model ----
(***************************************************************************)
(* Model of the Modbus register wrapper (modbus_wrapper/modbus_wrapper.py):*)
(* connection handling, the read cycle (read_all_registers), the write     *)
(* cycle (write_all_registers) and the per-bank register walks.            *)
(*                                                                         *)
(* One read or write cycle is a sequence of steps: the entry guard, one    *)
(* step per register entry (a blocking transport round trip followed by    *)
(* decoding, storing and validating), one step per bank return, and the    *)
(* final disconnect and return.  The transport (pymodbus client) is the    *)
(* environment: connect() answers true or false, every register operation  *)
(* answers with an error response or with data.                            *)
(***************************************************************************)
EXTENDS Integers, Sequences, FiniteSets, TLC

(***************************************************************************)
(* Bounds of the model.                                                    *)
(***************************************************************************)
\* how many of the sample words the transport may answer with
NumWords == 1
\* the strings convert_string_to_uint16t is tried with have up to MaxChars
\* characters
MaxChars == 3
\* main is run with up to MaxIterations iterations (args.iterations)
MaxIterations == 2
\* how many of the sample register files a wrapper may be run against
NumFiles == 9
\* the state indices a direct call of the restorer is tried with lie in
\* -MaxIndex..MaxIndex
MaxIndex == 9

(***************************************************************************)
(* Python values.  Every value is a record of the same shape so that       *)
(* values of different Python types can be stored in one dict:             *)
(*   int   n          t = "int",   v = <<n>>                               *)
(*   bool  b          t = "bool",  v = <<1>> or <<0>>                      *)
(*   list of ints     t = "list",  v = the elements                        *)
(*   list of bools    t = "blist", v = the elements as 1 / 0               *)
(*   str              t = "str",   s = the string                          *)
(* Python's integers are unbounded.  An int of 2^31 and more (up to         *)
(* 2^32 - 1, the largest value two words give) is held as its two 16-bit   *)
(* halves, v = <<high, low>>; every smaller int as v = <<n>>, so that every *)
(* number has one representation.                                          *)
(***************************************************************************)
PyInt(n) == [t |-> "int", v |-> <<n>>, s |-> ""]

\* the int (high << 16) | low of two 16-bit words
PyInt32(high, low) ==
    IF high < 32768
    THEN PyInt(high * 65536 + low)
    ELSE [t |-> "int", v |-> <<high, low>>, s |-> ""]

\* value >> 16 of a non-negative int
ShiftRight16(value) ==
    IF Len(value.v) = 2 THEN value.v[1] ELSE value.v[1] \div 65536

PyBool(b) == [t |-> "bool", v |-> <<IF b THEN 1 ELSE 0>>, s |-> ""]

PyList(seq) == [t |-> "list", v |-> seq, s |-> ""]

PyBoolList(seq) == [t |-> "blist", v |-> seq, s |-> ""]

PyStr(str) == [t |-> "str", v |-> <<>>, s |-> str]

PyFalse == PyBool(FALSE)

\* Python ==: bool is a subclass of int (True == 1, False == 0), lists are
\* compared element by element, a list never equals a number or a string.
PyEq(a, b) ==
    \/ a.t \in {"int", "bool"} /\ b.t \in {"int", "bool"} /\ a.v = b.v
    \/ a.t \in {"list", "blist"} /\ b.t \in {"list", "blist"} /\ a.v = b.v
    \/ a.t = "str" /\ b.t = "str" /\ a.s = b.s

\* Python dict: a function from keys to values
EmptyDict == [k \in {} |-> PyInt(0)]

DictSet(d, k, x) == [j \in (DOMAIN d) \cup {k} |-> IF j = k THEN x ELSE d[j]]

\* dict.update(other)
DictUpdate(d, other) ==
    [j \in (DOMAIN d) \cup (DOMAIN other) |->
        IF j \in DOMAIN other THEN other[j] ELSE d[j]]

\* faulty variant of Slice: the whole answer is kept
Slice_Whole(seq, count) == seq

\* seq[0:count]: slicing beyond the end of a list is not an error
Slice(seq, count) ==
    IF count >= Len(seq) THEN seq ELSE SubSeq(seq, 1, count)

(***************************************************************************)
(* Bit operations on non-negative integers, as Python computes them.       *)
(***************************************************************************)
RECURSIVE BitOr(_, _)
BitOr(a, b) ==
    IF a = 0 THEN b
    ELSE IF b = 0 THEN a
    ELSE 2 * BitOr(a \div 2, b \div 2)
         + (IF (a % 2 = 1) \/ (b % 2 = 1) THEN 1 ELSE 0)

RECURSIVE ShiftLeft(_, _)
ShiftLeft(a, n) == IF n = 0 THEN a ELSE ShiftLeft(2 * a, n - 1)

(***************************************************************************)
(* The register map file (load_modbus_registers_file): a JSON object with  *)
(* some of the bank keys COILS, HREGS, ISTS, IREGS, each an ordered        *)
(* mapping of register keys to register specs.  The file is                 *)
(*   present    the bank keys of the JSON object                           *)
(*   keys       the bank keys in the order the JSON object holds them      *)
(*   regs       the register specs of each bank, in the order of the file  *)
(* A register spec is                                                      *)
(*   key        the register key                                           *)
(*   has        the fields the JSON object of the register holds           *)
(*   register   the address, len the declared length                       *)
(*   test       the expected value (meaningful when "test" \in has)        *)
(*   val        the value to write (meaningful when "val" \in has)         *)
(***************************************************************************)
BankNames == {"COILS", "HREGS", "ISTS", "IREGS"}

Reg(key, register, len) ==
    [key |-> key, has |-> {"register", "len", "description"},
     register |-> register, len |-> len, test |-> PyInt(0), val |-> 0]

WithTest(e, test) == [e EXCEPT !.has = @ \cup {"test"}, !.test = test]

WithVal(e, val) == [e EXCEPT !.has = @ \cup {"val"}, !.val = val]

Without(e, f) == [e EXCEPT !.has = @ \ {f}]

RegisterFile(coils, hregs, ists, iregs, present) ==
    [present |-> present,
     keys |-> SelectSeq(<<"COILS", "HREGS", "ISTS", "IREGS">>,
                        LAMBDA b : b \in present),
     regs |-> [b \in BankNames |->
                 CASE b = "COILS" -> coils
                   [] b = "HREGS" -> hregs
                   [] b = "ISTS" -> ists
                   [] b = "IREGS" -> iregs]]

\* the same file with its bank keys written in another order
KeyOrder(f, keys) == [f EXCEPT !.keys = keys]

\* sample register files: all four banks with one register each, the bank
\* keys in the order IREGS, ISTS, HREGS, COILS; two-word registers, IREGS
\* written before HREGS; no bank at all; bit registers of length 2; a register spec
\* without description and val behind a well-formed one; a field with a
\* human readable form; the MAC address in the holding registers; the
\* device MAC address in the input registers; list-valued fields declared
\* with length 2 in the input registers; two coils
FileSamples ==
    << KeyOrder(RegisterFile(
         <<WithVal(WithTest(Reg("RELAY_COIL", 0, 1), PyBool(TRUE)), 1)>>,
         <<WithVal(WithTest(Reg("SETPOINT_HREG", 10, 1), PyInt(5)), 7)>>,
         <<Reg("DOOR_ISTS", 20, 1)>>,
         <<WithTest(Reg("TEMP_IREG", 30, 1), PyInt(-1))>>,
         BankNames), <<"IREGS", "ISTS", "HREGS", "COILS">>),
       KeyOrder(RegisterFile(
         << >>,
         <<WithVal(Reg("ENERGY_HREG", 40, 2), 70000),
           WithVal(WithTest(Reg("LIMIT_HREG", 42, 1), PyInt(5)), 65536)>>,
         << >>,
         <<Reg("POWER_IREG", 50, 2)>>,
         {"HREGS", "IREGS"}), <<"IREGS", "HREGS">>),
       RegisterFile(<< >>, << >>, << >>, << >>, {}),
       RegisterFile(
         <<WithVal(WithTest(Reg("LED_COIL", 1, 2), PyInt(-1)), 0)>>,
         << >>,
         <<WithTest(Reg("SWITCH_ISTS", 21, 2), PyInt(5))>>,
         << >>,
         {"COILS", "ISTS"}),
       RegisterFile(
         << >>,
         <<WithVal(Reg("SETPOINT_HREG", 10, 1), 5),
           Without(Reg("BROKEN_HREG", 11, 1), "description")>>,
         << >>,
         << >>,
         {"HREGS"}),
       RegisterFile(
         << >>,
         << >>,
         << >>,
         <<Reg("CHARGING_STATE_IREG", 60, 1),
           WithTest(Reg("TEMP_IREG", 30, 1), PyInt(5))>>,
         {"IREGS"}),
       RegisterFile(
         << >>,
         <<WithTest(Reg("MAC_ADDRESS_HREG", 100, 3), PyInt(-1))>>,
         << >>,
         << >>,
         {"HREGS"}),
       RegisterFile(
         << >>,
         << >>,
         << >>,
         <<Reg("DEVICE_MAC_IREG", 10, 3)>>,
         {"IREGS"}),
       RegisterFile(
         << >>,
         << >>,
         << >>,
         <<WithTest(Reg("DEVICE_UUID_IREG", 80, 2), PyInt(-1)),
           WithTest(Reg("COMMIT_SHA_IREG", 82, 2), PyInt(-1))>>,
         {"IREGS"}),
       RegisterFile(
         <<WithVal(Reg("RELAY_COIL", 0, 1), 0),
           WithVal(Reg("LED_COIL", 1, 1), 1)>>,
         << >>,
         << >>,
         << >>,
         {"COILS"}) >>

Files == {FileSamples[i] : i \in 1..NumFiles}

(***************************************************************************)
(* The transport's answers.  A response is an error response or carries    *)
(* data: the bits of a bit response are padded to whole bytes, the words   *)
(* of a word response are 16-bit values; a device may answer with fewer or *)
(* more words than requested.  A read of three words may be answered with  *)
(* the words of the MAC address.                                           *)
(***************************************************************************)
WordSamples == <<7, 5, 0, 160, 32767>>

\* the largest value of a register word
MaxWord == 65535

\* the words 0x00A0, 0x4566, 0x4F40 of the MAC address 00:A0:45:66:4F:40
MacWords == <<160, 17766, 20288>>

Words == {WordSamples[i] : i \in 1..NumWords}

SeqsOver(S, n) == [1..n -> S]

PadBits(bits) == [i \in 1..8 |-> IF i <= Len(bits) THEN bits[i] ELSE 0]

BitResponses(count) ==
    {[err |-> TRUE, data |-> << >>]}
    \cup {[err |-> FALSE, data |-> PadBits(b)] : b \in SeqsOver({0, 1}, count)}

WordResponses(count) ==
    {[err |-> TRUE, data |-> << >>]}
    \cup {[err |-> FALSE, data |-> w] : w \in SeqsOver(Words, count)}
    \cup {[err |-> FALSE, data |-> << >>],
          [err |-> FALSE, data |-> [i \in 1..(count + 1) |-> WordSamples[1]]]}
    \cup (IF count = Len(MacWords)
          THEN {[err |-> FALSE, data |-> MacWords]}
          ELSE {})

\* the answer to a write: acknowledged or an error response
WriteResponses == {[err |-> e, data |-> << >>] : e \in BOOLEAN}

(***************************************************************************)
(* restore_human_readable_content: the human readable form of a value, or  *)
(* the empty string when the key has none.  The result is a record         *)
(*   raised   the rule raised an exception on the value                    *)
(*   s        the string returned otherwise                                *)
(***************************************************************************)
\* the digits of a non-negative integer to a base, most significant first
RECURSIVE Digits(_, _)
Digits(n, base) ==
    IF n < base THEN <<n>> ELSE Append(Digits(n \div base, base), n % base)

LowerHex == <<"0", "1", "2", "3", "4", "5", "6", "7", "8", "9",
              "a", "b", "c", "d", "e", "f">>

UpperHex == <<"0", "1", "2", "3", "4", "5", "6", "7", "8", "9",
              "A", "B", "C", "D", "E", "F">>

Binary == <<"0", "1">>

Decimal == <<"0", "1", "2", "3", "4", "5", "6", "7", "8", "9">>

\* format(n, 'x'), format(n, 'X'), format(n, 'b'), str(n) as the sequence
\* of their characters: no leading zeros, a minus sign for a negative n
FormatChars(n, alphabet) ==
    LET d == Digits(IF n < 0 THEN -n ELSE n, Len(alphabet))
    IN  (IF n < 0 THEN <<"-">> ELSE << >>)
        \o [i \in 1..Len(d) |-> alphabet[d[i] + 1]]

\* ''.join(strs)
RECURSIVE Join(_)
Join(strs) == IF strs = << >> THEN "" ELSE Head(strs) \o Join(Tail(strs))

\* sep.join(strs)
RECURSIVE JoinWith(_, _)
JoinWith(strs, sep) ==
    IF Len(strs) <= 1
    THEN Join(strs)
    ELSE Head(strs) \o sep \o JoinWith(Tail(strs), sep)

\* the concatenation of a sequence of sequences
RECURSIVE Concat(_)
Concat(ss) == IF ss = << >> THEN << >> ELSE Head(ss) \o Concat(Tail(ss))

\* chars[::-1]
Reversed(chars) == [i \in 1..Len(chars) |-> chars[Len(chars) + 1 - i]]

\* zero padding to a minimal width (format spec '0<width>')
ZeroPadded(chars, width) ==
    IF Len(chars) >= width
    THEN chars
    ELSE [i \in 1..(width - Len(chars)) |-> "0"] \o chars

\* [chars[i:i+2] for i in range(0, len(chars), 2)]
PairsOf(chars) ==
    [g \in 1..((Len(chars) + 1) \div 2) |->
        Join(SubSeq(chars, 2 * g - 1,
                    IF 2 * g <= Len(chars) THEN 2 * g ELSE Len(chars)))]

\* the characters of the codes 32..95 and 97..126
Printable ==
    << " ", "!", "\"", "#", "$", "%", "&", "'", "(", ")",
       "*", "+", ",", "-", ".", "/", "0", "1", "2", "3",
       "4", "5", "6", "7", "8", "9", ":", ";", "<", "=",
       ">", "?", "@", "A", "B", "C", "D", "E", "F", "G",
       "H", "I", "J", "K", "L", "M", "N", "O", "P", "Q",
       "R", "S", "T", "U", "V", "W", "X", "Y", "Z", "[",
       "\\", "]", "^", "_", "a", "b", "c", "d", "e",
       "f", "g", "h", "i", "j", "k", "l", "m", "n", "o",
       "p", "q", "r", "s", "t", "u", "v", "w", "x", "y",
       "z", "{", "|", "}", "~" >>

\* chr(x) of a code below 256; the character of a code without a
\* printable character, and of the code 96, is named by its escape \xhh
Chr(x) ==
    IF x >= 32 /\ x <= 95
    THEN Printable[x - 31]
    ELSE IF x >= 97 /\ x <= 126
    THEN Printable[x - 32]
    ELSE "\\x" \o Join(ZeroPadded(FormatChars(x, LowerHex), 2))

\* zip(it, it) over one iterator: the elements in pairs, an element left
\* over at the end is dropped
ZipPairs(seq) ==
    [g \in 1..(Len(seq) \div 2) |-> <<seq[2 * g - 1], seq[2 * g]>>]

\* hex(high << 16 | low) of two words
Hex32(high, low) ==
    "0x" \o (IF high = 0
             THEN Join(FormatChars(low, LowerHex))
             ELSE Join(FormatChars(high, LowerHex))
                  \o Join(ZeroPadded(FormatChars(low, LowerHex), 4)))

IsInt(value) == value.t \in {"int", "bool"}

IsList(value) == value.t \in {"list", "blist"}

RestoreResult(s) == [raised |-> FALSE, s |-> s]

RestoreRaised == [raised |-> TRUE, s |-> ""]

possible_states == <<"A", "B", "C", "D", "E", "F", "unknown">>

\* possible_states[value]: a Python list index; a negative index counts
\* from the end, an index outside the list raises IndexError, a value that
\* is no integer raises TypeError
RestoreChargingState(value) ==
    IF ~IsInt(value) \/ Len(value.v) # 1
    THEN RestoreRaised
    ELSE LET i == value.v[1]
             n == Len(possible_states)
         IN  IF 0 <= i /\ i < n
             THEN RestoreResult(possible_states[i + 1])
             ELSE IF -n <= i /\ i < 0
             THEN RestoreResult(possible_states[n + i + 1])
             ELSE RestoreRaised

\* unicode_chars_list: the high and the low byte of every word
CommitShaCodes(words) ==
    Concat([i \in 1..Len(words) |->
              <<(words[i] \div 256) % 256, words[i] % 256>>])

\* ''.join(chr(x) for x in unicode_chars_list): an int is not iterable
RestoreCommitSha(value) ==
    IF ~IsList(value)
    THEN RestoreRaised
    ELSE LET unicode_chars_list == CommitShaCodes(value.v)
         IN  RestoreResult(Join([i \in 1..Len(unicode_chars_list) |->
                                   Chr(unicode_chars_list[i])]))

\* ', '.join(hex(ele[0] << 16 | ele[1])) over the pairs of words: an int
\* is not iterable
RestoreDeviceUuid(value) ==
    IF ~IsList(value)
    THEN RestoreRaised
    ELSE LET tupleList == ZipPairs(value.v)
         IN  RestoreResult(JoinWith([g \in 1..Len(tupleList) |->
                                       Hex32(tupleList[g][1], tupleList[g][2])],
                                    ", "))

\* ':'.join(format(x, 'x') for x in value): an int is not iterable
RestoreDeviceMac(value) ==
    IF ~IsList(value)
    THEN RestoreRaised
    ELSE RestoreResult(
           JoinWith([i \in 1..Len(value.v) |->
                       Join(FormatChars(value.v[i], LowerHex))], ":"))

\* "{0:010b}".format(value)[::-1]: a list has no binary format
RestoreDipConfig(value) ==
    IF ~IsInt(value)
    THEN RestoreRaised
    ELSE LET bits == IF Len(value.v) = 2
                     THEN FormatChars(value.v[1], Binary)
                          \o ZeroPadded(FormatChars(value.v[2], Binary), 16)
                     ELSE IF value.v[1] < 0
                     THEN <<"-">>
                          \o ZeroPadded(FormatChars(-value.v[1], Binary), 9)
                     ELSE ZeroPadded(FormatChars(value.v[1], Binary), 10)
         IN  RestoreResult(Join(Reversed(bits)))

\* faulty variant of RestoreFirmwareVersion: the major part is not taken
\* off before the minor part is computed
RestoreFirmwareVersion_MinorOfAll(value) ==
    IF ~IsInt(value)
    THEN RestoreRaised
    ELSE LET fw == ShiftRight16(value)
             fw_0 == fw \div 10000
             fw_1 == fw \div 100
             fw_2 == fw - (fw_0 * 10000) - ((fw_1 % 100) * 100)
         IN  RestoreResult(
               JoinWith([i \in 1..3 |->
                           Join(FormatChars(<<fw_0, fw_1, fw_2>>[i],
                                            Decimal))], "."))

\* fw = value >> 16, split into fw_0, fw_1, fw_2 by division (int(a / b)
\* of non-negative a) and joined with '.'
RestoreFirmwareVersion(value) ==
    IF ~IsInt(value)
    THEN RestoreRaised
    ELSE LET fw == ShiftRight16(value)
             fw_0 == fw \div 10000
             fw_1 == (fw - (fw_0 * 10000)) \div 100
             fw_2 == fw - (fw_0 * 10000) - (fw_1 * 100)
         IN  RestoreResult(
               JoinWith([i \in 1..3 |->
                           Join(FormatChars(<<fw_0, fw_1, fw_2>>[i],
                                            Decimal))], "."))

\* val_str = ''.join(format(x, 'X') for x in value), cut into pairs of
\* characters that are joined with ':'
RestoreMacAddress(value) ==
    IF ~IsList(value)
    THEN RestoreRaised
    ELSE LET val_str == Concat([i \in 1..Len(value.v) |->
                                  FormatChars(value.v[i], UpperHex)])
         IN  RestoreResult(JoinWith(PairsOf(val_str), ":"))

\* the rules of the keys the register files of the model use; the keys of
\* the other rules (dates, durations, ASCII fields) occur in no file
restore_human_readable_content(key, value) ==
    CASE key = "CHARGING_STATE_IREG" -> RestoreChargingState(value)
      [] key = "COMMIT_SHA_IREG" -> RestoreCommitSha(value)
      [] key = "DEVICE_MAC_IREG" -> RestoreDeviceMac(value)
      [] key = "DEVICE_UUID_IREG" -> RestoreDeviceUuid(value)
      [] key = "DIP_CONFIG_IREG" -> RestoreDipConfig(value)
      [] key = "FIRMWARE_VERSION_IREG" -> RestoreFirmwareVersion(value)
      [] key = "MAC_ADDRESS_HREG" -> RestoreMacAddress(value)
      [] OTHER -> RestoreResult("")

\* faulty variant of Restored: the except branch keeps a text for the
\* failure in place of ''
Restored_ErrorText(key, value) ==
    LET r == restore_human_readable_content(key, value)
    IN  IF r.raised THEN "error" ELSE r.s

\* the caller's try/except around the restorer: an exception gives ''
Restored(key, value) ==
    LET r == restore_human_readable_content(key, value)
    IN  IF r.raised THEN "" ELSE r.s

(***************************************************************************)
(* Decoding of a successful response.                                      *)
(***************************************************************************)
\* faulty variant of DecodeBits: the bits are sliced also for one bit
DecodeBits_AlwaysSlice(count, bits) == PyBoolList(Slice(bits, count))

\* read_coil_registers, read_ists_registers
DecodeBits(count, bits) ==
    IF count = 1
    THEN PyBool(bits[1] = 1)
    ELSE PyBoolList(Slice(bits, count))

\* read_hregs_registers
DecodeHregs(count, registers) ==
    IF count = 1
    THEN PyInt(registers[1])
    ELSE PyList(Slice(registers, count))

\* read_iregs_registers
DecodeIregs(count, registers) ==
    IF count = 1
    THEN PyInt(registers[1])
    ELSE IF count = 2 /\ Len(registers) = 2
    THEN PyInt(BitOr(ShiftLeft(registers[1], 16), registers[2]))
    ELSE PyList(Slice(registers, count))

\* expected_val = 0; if 'test' in val: expected_val = val['test']
ExpectedVal(val) == IF "test" \in val.has THEN val.test ELSE PyInt(0)

\* check_expectation and (expected_val != value) and (expected_val != -1)
Mismatch(check_expectation, expected_val, value) ==
    /\ check_expectation
    /\ ~PyEq(expected_val, value)
    /\ ~PyEq(expected_val, PyInt(-1))

\* the value stored for a register whose read is an error response
CoilErrorValue == PyFalse

HregsErrorValue == PyInt(-1)

IstsErrorValue == PyInt(-1)

IregsErrorValue == PyFalse

(***************************************************************************)
(* One pass of the loop body of a bank's read function, after the          *)
(* transport answered: what is stored in register_content and how much     *)
(* invalid_reg_counter grows.                                              *)
(***************************************************************************)
Entry(content, invalid) == [content |-> content, invalid |-> invalid]

BitEntry(val, check_expectation, response, error_value) ==
    IF response.err
    THEN Entry(DictSet(EmptyDict, val.key, error_value), 1)
    ELSE LET bit_val == DecodeBits(val.len, response.data)
         IN  Entry(DictSet(EmptyDict, val.key, bit_val),
                   IF Mismatch(check_expectation, ExpectedVal(val), bit_val)
                   THEN 1 ELSE 0)

\* faulty variant of WordEntry: the expectation check is applied to the
\* sentinel of an error response as well
WordEntry_ErrorChecked(val, check, response, error_value, register_val) ==
    LET checked == IF response.err THEN error_value ELSE register_val
        restored == IF response.err THEN ""
                    ELSE Restored(val.key, register_val)
        human == IF restored # ""
                 THEN DictSet(EmptyDict, val.key \o "_HUMAN", PyStr(restored))
                 ELSE EmptyDict
    IN  Entry(DictSet(human, val.key, checked),
              (IF response.err THEN 1 ELSE 0)
              + (IF Mismatch(check, ExpectedVal(val), checked)
                 THEN 1 ELSE 0))

\* faulty variant of WordEntry: the human readable form is stored in place
\* of the decoded value
WordEntry_HumanReplaces(val, check, response, error_value, register_val) ==
    IF response.err
    THEN Entry(DictSet(EmptyDict, val.key, error_value), 1)
    ELSE LET restored == Restored(val.key, register_val)
             stored == IF restored # "" THEN PyStr(restored)
                       ELSE register_val
         IN  Entry(DictSet(EmptyDict, val.key, stored),
                   IF Mismatch(check, ExpectedVal(val), register_val)
                   THEN 1 ELSE 0)

WordEntry(val, check_expectation, response, error_value, register_val) ==
    IF response.err
    THEN Entry(DictSet(EmptyDict, val.key, error_value), 1)
    ELSE LET restored == Restored(val.key, register_val)
             human == IF restored # ""
                      THEN DictSet(EmptyDict, val.key \o "_HUMAN",
                                   PyStr(restored))
                      ELSE EmptyDict
         IN  Entry(DictSet(human, val.key, register_val),
                   IF Mismatch(check_expectation, ExpectedVal(val),
                               register_val)
                   THEN 1 ELSE 0)

CoilEntry(val, check_expectation, response) ==
    BitEntry(val, check_expectation, response, CoilErrorValue)

IstsEntry(val, check_expectation, response) ==
    BitEntry(val, check_expectation, response, IstsErrorValue)

HregsEntry(val, check_expectation, response) ==
    WordEntry(val, check_expectation, response, HregsErrorValue,
              IF response.err THEN PyInt(0)
              ELSE DecodeHregs(val.len, response.data))

IregsEntry(val, check_expectation, response) ==
    WordEntry(val, check_expectation, response, IregsErrorValue,
              IF response.err THEN PyInt(0)
              ELSE DecodeIregs(val.len, response.data))

\* registers[0] of an empty list raises IndexError (count == 1)
DecodeRaises(val, response) ==
    ~response.err /\ val.len = 1 /\ Len(response.data) = 0

\* faulty variant of HregsWrites: the value is split at the 16-bit boundary
HregsWrites_Split65536(val) ==
    IF val.val > 65535 /\ val.len > 1
    THEN << <<val.register, val.val \div 65536>>,
            <<val.register + 1, val.val % 65536>> >>
    ELSE << <<val.register, val.val>> >>

(***************************************************************************)
(* write_hregs_registers: the transport writes emitted for one entry, as   *)
(* (address, value) pairs in the order they are issued.                    *)
(***************************************************************************)
HregsWrites(val) ==
    IF val.val > 65535 /\ val.len > 1
    THEN << <<val.register, val.val \div 65535>>,
            <<val.register + 1, val.val % 65535>> >>
    ELSE << <<val.register, val.val>> >>

\* write_coil_registers: one write of the value at the address
CoilWrites(val) == << <<val.register, val.val>> >>

\* the response that decides whether the entry is logged as failed: the
\* variable response holds the answer to the last write issued
DecidingResponse(responses) == responses[Len(responses)]

(***************************************************************************)
(* State.                                                                  *)
(***************************************************************************)
VARIABLES
    file,                \* the register map file the wrapper is run against
    client,              \* self._client: "None" or "client"
    connection,          \* self._connection: "None", "True" or "False"
    self_read_content,   \* self._read_content
    transport_open,      \* the client is connected (connect() .. close())
    pc,                  \* "idle", "read", "write", "returned", "raised"
    call,                \* the cycle in progress or just ended
    exc,                 \* the exception a raised cycle ended with
    ret,                 \* the value a returned cycle returned
    log,                 \* the calls made to the transport in this cycle
    check_expectation,   \* read_all_registers' argument
    bank,                \* position of the walk: the bank ...
    idx,                 \* ... and the entry in it
    invalid_reg_counter, \* read_*_registers' local counter
    register_content,    \* read_*_registers' local dict
    invalid_reg_content, \* read_all_registers' local counter
    read_content,        \* read_all_registers' local dict
    failed_counter,      \* write_*_registers' local failed_reg_counter
    register_log,        \* write_*_registers' local failed_reg_log
    failed_reg_counter,  \* write_all_registers' local counter
    failed_reg_log,      \* write_all_registers' local dict
    restore_key,         \* a direct call of restore_human_readable_content:
    restore_value,       \* ... its arguments key and value
    restore_ret,         \* ... and the string it returned
    content,             \* convert_string_to_uint16t's argument, as codes
    cleared_dict,        \* request_modbus_data's local cleared_dict
    raw_read_content,    \* request_modbus_data's local raw_read_content
    backup_interval,     \* main's arguments: args.backup,
    save_info,           \* ... args.save_info,
    output_folder,       \* ... args.output_folder ("None" when not given)
    request_iterations,  \* ... and args.iterations
    main_pc,             \* main's position: "none", "loop", "closing", ...
    iteration,           \* main's local iteration
    this_time,           \* main's local this_time
    last_backup_time,    \* main's local last_backup_time
    table_size,          \* the rows of the table of the in-memory database
    backups,             \* how many backup files have been written
    db_open              \* the database connection is open

restoreCall == <<restore_key, restore_value, restore_ret>>

wrapper == <<file, client, connection, self_read_content, transport_open>>

readLocals == <<check_expectation, invalid_reg_counter, register_content,
                invalid_reg_content, read_content>>

writeLocals == <<failed_counter, register_log, failed_reg_counter,
                 failed_reg_log>>

convertCall == <<content>>

requestData == <<cleared_dict, raw_read_content>>

mainArgs == <<backup_interval, save_info, output_folder, request_iterations>>

mainLocals == <<main_pc, iteration, this_time, last_backup_time, table_size,
                backups, db_open>>

scripts == <<convertCall, mainArgs, mainLocals>>

vars == <<wrapper, pc, call, exc, ret, log, bank, idx, readLocals,
          writeLocals, restoreCall, requestData, scripts>>

\* faulty variant of ReadBankOrder: the banks are walked in the order of
\* the bank keys of the map, the banks the map does not declare last
ReadBankOrder_AsInMap ==
    file.keys \o SelectSeq(<<"COILS", "HREGS", "ISTS", "IREGS">>,
                           LAMBDA b : b \notin file.present)

\* the order in which read_all_registers and write_all_registers walk
ReadBankOrder == <<"COILS", "HREGS", "ISTS", "IREGS">>

\* faulty variant of WriteBankOrder: the write walk goes on to the banks
\* that can only be read
WriteBankOrder_AllBanks == <<"COILS", "HREGS", "ISTS", "IREGS">>

WriteBankOrder == <<"COILS", "HREGS">>

\* a call made to the transport client and its answer: the operation, the
\* register key it is made for, address and count (or value written), the
\* answer (error response or data) and whether the client was connected
Call(op, key, address, arg, response) ==
    [op |-> op, key |-> key, address |-> address, arg |-> arg,
     err |-> response.err, data |-> response.data, open |-> transport_open]

\* the answer of connect() and close()
Plain(err) == [err |-> err, data |-> << >>]

\* faulty variant of NextEntry: the walk leaves out every second register
NextEntry_Skip(i) == i + 2

\* the for loop over the bank's items goes on to the next entry
NextEntry(i) == i + 1

ResetReadLocals ==
    /\ check_expectation' = FALSE
    /\ invalid_reg_counter' = 0
    /\ register_content' = EmptyDict
    /\ invalid_reg_content' = 0
    /\ read_content' = EmptyDict

ResetWriteLocals ==
    /\ failed_counter' = 0
    /\ register_log' = EmptyDict
    /\ failed_reg_counter' = 0
    /\ failed_reg_log' = EmptyDict

\* ModbusWrapper.__init__: the state of a wrapper just constructed
Constructed ==
    /\ client = "None"
    /\ connection = "None"
    /\ self_read_content = EmptyDict
    /\ transport_open = FALSE
    /\ pc = "idle"
    /\ call = ""
    /\ exc = ""
    /\ ret = EmptyDict
    /\ log = << >>
    /\ bank = 0
    /\ idx = 0
    /\ check_expectation = FALSE
    /\ invalid_reg_counter = 0
    /\ register_content = EmptyDict
    /\ invalid_reg_content = 0
    /\ read_content = EmptyDict
    /\ failed_counter = 0
    /\ register_log = EmptyDict
    /\ failed_reg_counter = 0
    /\ failed_reg_log = EmptyDict

\* a constructed wrapper and the register file of the run
\* no direct call of the restorer is to be made
NoRestoreCall ==
    /\ restore_key = ""
    /\ restore_value = PyInt(0)
    /\ restore_ret = ""

\* request_modbus_data is not running
NoRequest ==
    /\ cleared_dict = EmptyDict
    /\ raw_read_content = EmptyDict

\* no string is to be converted
NoConvertCall == content = << >>

\* main has not been started
NoMain ==
    /\ backup_interval = "hour"
    /\ save_info = FALSE
    /\ output_folder = "None"
    /\ request_iterations = 0
    /\ main_pc = "none"
    /\ iteration = 0
    /\ this_time = 0
    /\ last_backup_time = 0
    /\ table_size = 0
    /\ backups = 0
    /\ db_open = FALSE

Init ==
    /\ file \in Files
    /\ Constructed
    /\ NoRestoreCall
    /\ NoRequest
    /\ NoConvertCall
    /\ NoMain

(***************************************************************************)
(* Connection handling.                                                    *)
(***************************************************************************)
DeviceTypes == {"tcp", "rtu", "udp"}

setup_connection(device_type) ==
    /\ pc = "idle"
    /\ IF device_type \in {"tcp", "rtu"}
       THEN client' = "client" /\ transport_open' = FALSE
       ELSE UNCHANGED <<client, transport_open>>
    /\ UNCHANGED <<restoreCall, scripts, requestData, file, connection, self_read_content, pc, call, exc, ret,
                   log,
                   bank, idx, readLocals, writeLocals>>

\* the value client.close() returns
CloseResult == "None"

\* the value self.connection holds after client.connect() answered ok
ConnectResult(ok) == IF ok THEN "True" ELSE "False"

\* self.connect = True, called between cycles
connect ==
    /\ pc = "idle"
    /\ IF client # "None"
       THEN \E ok \in BOOLEAN :
               /\ connection' = ConnectResult(ok)
               /\ transport_open' = ok
       ELSE UNCHANGED <<connection, transport_open>>
    /\ UNCHANGED <<restoreCall, scripts, requestData, file, client, self_read_content, pc, call, exc, ret,
                   log,
                   bank, idx, readLocals, writeLocals>>

\* disconnect(), called between cycles
disconnect ==
    /\ pc = "idle"
    /\ IF client # "None"
       THEN connection' = CloseResult /\ transport_open' = FALSE
       ELSE UNCHANGED <<connection, transport_open>>
    /\ UNCHANGED <<restoreCall, scripts, requestData, file, client, self_read_content, pc, call, exc, ret,
                   log,
                   bank, idx, readLocals, writeLocals>>

\* the cycle's entry guard sends the cycle on to the walk
GuardPasses == connection # "False"

\* the entry guard of read_all_registers and write_all_registers: returns
\* the empty dict when no connection can be opened, starts the walk (pc
\* becomes walk) otherwise
EnterCycle(walk, name) ==
    /\ pc = "idle"
    /\ call' = name
    /\ exc' = ""
    /\ idx' = 1
    /\ UNCHANGED <<restoreCall, scripts, requestData, file, client, self_read_content>>
    /\ IF GuardPasses
       THEN /\ pc' = walk /\ bank' = 1 /\ ret' = EmptyDict /\ log' = << >>
            /\ UNCHANGED <<connection, transport_open>>
       ELSE IF client = "None"
       THEN /\ pc' = "returned" /\ bank' = 0 /\ ret' = EmptyDict
            /\ log' = << >>
            /\ UNCHANGED <<connection, transport_open>>
       ELSE \E ok \in BOOLEAN :
               /\ connection' = ConnectResult(ok)
               /\ transport_open' = ok
               /\ log' = <<Call("connect", "", 0, 0, Plain(~ok))>>
               /\ ret' = EmptyDict
               /\ IF ok
                  THEN pc' = walk /\ bank' = 1
                  ELSE pc' = "returned" /\ bank' = 0

read_all_registers(check) ==
    /\ EnterCycle("read", "read_all_registers")
    /\ check_expectation' = check
    /\ invalid_reg_counter' = 0
    /\ register_content' = EmptyDict
    /\ invalid_reg_content' = 0
    /\ read_content' = EmptyDict
    /\ UNCHANGED writeLocals

write_all_registers ==
    /\ EnterCycle("write", "write_all_registers")
    /\ ResetWriteLocals
    /\ UNCHANGED readLocals

\* an exception leaves the cycle: nothing of the cycle's locals survives
Raise(e) ==
    /\ pc' = "raised"
    /\ exc' = e
    /\ bank' = 0
    /\ idx' = 0
    /\ ret' = EmptyDict
    /\ ResetReadLocals
    /\ ResetWriteLocals
    /\ UNCHANGED <<restoreCall, scripts, requestData, wrapper, call>>

(***************************************************************************)
(* The read walk.                                                          *)
(***************************************************************************)
InBank(walk, order, name) ==
    /\ pc = walk
    /\ bank \in 1..Len(order)
    /\ order[bank] = name
    /\ name \in file.present

AtEntry(walk, order, name) ==
    /\ InBank(walk, order, name)
    /\ idx <= Len(file.regs[name])

\* one pass of a read loop: the register spec val is read, the transport
\* is asked (op), the answer is decoded and stored (entry)
BankResponses(name, count) ==
    IF name \in {"COILS", "ISTS"}
    THEN BitResponses(count)
    ELSE WordResponses(count)

BankEntry(name, val, check, response) ==
    CASE name = "COILS" -> CoilEntry(val, check, response)
      [] name = "HREGS" -> HregsEntry(val, check, response)
      [] name = "ISTS" -> IstsEntry(val, check, response)
      [] name = "IREGS" -> IregsEntry(val, check, response)

ReadPass(op, name) ==
    LET val == file.regs[name][idx]
    IN  IF ~({"register", "len", "description"} \subseteq val.has)
        THEN Raise("KeyError") /\ UNCHANGED log
        ELSE IF client = "None"
        THEN Raise("AttributeError") /\ UNCHANGED log
        ELSE \E response \in BankResponses(name, val.len) :
                LET c == Call(op, val.key, val.register, val.len, response)
                IN  /\ log' = Append(log, c)
                    /\ IF DecodeRaises(val, response)
                       THEN Raise("IndexError")
                       ELSE LET e == BankEntry(name, val, check_expectation,
                                                response)
                            IN  /\ register_content' =
                                     DictUpdate(register_content, e.content)
                                /\ invalid_reg_counter' =
                                     invalid_reg_counter + e.invalid
                                /\ idx' = NextEntry(idx)
                                /\ UNCHANGED <<restoreCall, scripts, requestData, wrapper, pc, call, exc, ret,
                                               bank,
                                               check_expectation,
                                               invalid_reg_content,
                                               read_content, writeLocals>>

read_coil_registers ==
    /\ AtEntry("read", ReadBankOrder, "COILS")
    /\ ReadPass("read_coils", "COILS")

read_hregs_registers ==
    /\ AtEntry("read", ReadBankOrder, "HREGS")
    /\ ReadPass("read_holding_registers", "HREGS")

read_ists_registers ==
    /\ AtEntry("read", ReadBankOrder, "ISTS")
    /\ ReadPass("read_discrete_inputs", "ISTS")

read_iregs_registers ==
    /\ AtEntry("read", ReadBankOrder, "IREGS")
    /\ ReadPass("read_input_registers", "IREGS")

\* the bank's read function returns: the counter is added up and the
\* bank's content is merged into read_content
ReadBankReturn ==
    /\ pc = "read"
    /\ bank \in 1..Len(ReadBankOrder)
    /\ ReadBankOrder[bank] \in file.present
    /\ idx > Len(file.regs[ReadBankOrder[bank]])
    /\ invalid_reg_content' = invalid_reg_content + invalid_reg_counter
    /\ read_content' = DictUpdate(read_content, register_content)
    /\ invalid_reg_counter' = 0
    /\ register_content' = EmptyDict
    /\ bank' = bank + 1
    /\ idx' = 1
    /\ UNCHANGED <<restoreCall, scripts, requestData, wrapper, pc, call, exc, ret, log, check_expectation,
                   writeLocals>>

\* faulty variant of ReadBankSkip: the bank is looked up in the map without
\* asking whether the map defines it
ReadBankSkip_Lookup ==
    /\ pc = "read"
    /\ bank \in 1..Len(ReadBankOrder)
    /\ ReadBankOrder[bank] \notin file.present
    /\ Raise("KeyError")
    /\ UNCHANGED log

\* a bank the file does not define is skipped
ReadBankSkip ==
    /\ pc = "read"
    /\ bank \in 1..Len(ReadBankOrder)
    /\ ReadBankOrder[bank] \notin file.present
    /\ bank' = bank + 1
    /\ UNCHANGED <<restoreCall, scripts, requestData, wrapper, pc, call, exc, ret, log, idx, readLocals,
                   writeLocals>>

\* self.disconnect() at the end of a cycle
CycleDisconnect ==
    IF client # "None"
    THEN /\ connection' = CloseResult
         /\ transport_open' = FALSE
         /\ log' = Append(log, Call("close", "", 0, 0, Plain(FALSE)))
    ELSE UNCHANGED <<connection, transport_open, log>>

\* the end of read_all_registers: disconnect, keep and return the content
ReadFinish ==
    /\ pc = "read"
    /\ bank = Len(ReadBankOrder) + 1
    /\ CycleDisconnect
    /\ self_read_content' = read_content
    /\ ret' = read_content
    /\ pc' = "returned"
    /\ bank' = 0
    /\ idx' = 0
    /\ ResetReadLocals
    /\ UNCHANGED <<restoreCall, scripts, requestData, file, client, call, exc, writeLocals>>

(***************************************************************************)
(* The write walk.                                                         *)
(***************************************************************************)
\* one pass of a write loop: the writes of the entry are issued one after
\* the other, the entry is logged as failed when the deciding response is
\* an error response
BankWrites(name, val) ==
    IF name = "COILS" THEN CoilWrites(val) ELSE HregsWrites(val)

WritePass(op, name, needed) ==
    LET val == file.regs[name][idx]
    IN  IF ~(needed \subseteq val.has)
        THEN Raise("KeyError") /\ UNCHANGED log
        ELSE IF client = "None"
        THEN Raise("AttributeError") /\ UNCHANGED log
        ELSE LET w == BankWrites(name, val)
             IN  \E responses \in SeqsOver(WriteResponses, Len(w)) :
                    /\ log' = log \o [i \in 1..Len(w) |->
                                        Call(op, val.key, w[i][1], w[i][2],
                                             responses[i])]
                    /\ IF DecidingResponse(responses).err
                       THEN /\ failed_counter' = failed_counter + 1
                            /\ register_log' =
                                 DictSet(register_log, val.key, PyFalse)
                       ELSE UNCHANGED <<failed_counter, register_log>>
                    /\ idx' = NextEntry(idx)
                    /\ UNCHANGED <<restoreCall, scripts, requestData, wrapper, pc, call, exc, ret, bank,
                                   readLocals,
                                   failed_reg_counter, failed_reg_log>>

write_coil_registers ==
    /\ AtEntry("write", WriteBankOrder, "COILS")
    /\ WritePass("write_coil", "COILS", {"register", "val"})

write_hregs_registers ==
    /\ AtEntry("write", WriteBankOrder, "HREGS")
    /\ WritePass("write_register", "HREGS", {"register", "val", "len"})

WriteBankReturn ==
    /\ pc = "write"
    /\ bank \in 1..Len(WriteBankOrder)
    /\ WriteBankOrder[bank] \in file.present
    /\ idx > Len(file.regs[WriteBankOrder[bank]])
    /\ failed_reg_counter' = failed_reg_counter + failed_counter
    /\ failed_reg_log' = DictUpdate(failed_reg_log, register_log)
    /\ failed_counter' = 0
    /\ register_log' = EmptyDict
    /\ bank' = bank + 1
    /\ idx' = 1
    /\ UNCHANGED <<restoreCall, scripts, requestData, wrapper, pc, call, exc, ret, log, readLocals>>

WriteBankSkip ==
    /\ pc = "write"
    /\ bank \in 1..Len(WriteBankOrder)
    /\ WriteBankOrder[bank] \notin file.present
    /\ bank' = bank + 1
    /\ UNCHANGED <<restoreCall, scripts, requestData, wrapper, pc, call, exc, ret, log, idx, readLocals,
                   writeLocals>>

\* the end of write_all_registers: disconnect and return the failure log
WriteFinish ==
    /\ pc = "write"
    /\ bank = Len(WriteBankOrder) + 1
    /\ CycleDisconnect
    /\ ret' = failed_reg_log
    /\ pc' = "returned"
    /\ bank' = 0
    /\ idx' = 0
    /\ ResetWriteLocals
    /\ UNCHANGED <<restoreCall, scripts, requestData, file, client, self_read_content, call, exc, readLocals>>

(***************************************************************************)
(* The caller.                                                             *)
(***************************************************************************)
\* the caller takes the returned dict
Return ==
    /\ pc = "returned"
    /\ pc' = "idle"
    /\ call' = ""
    /\ ret' = EmptyDict
    /\ log' = << >>
    /\ cleared_dict' = EmptyDict
    /\ raw_read_content' = EmptyDict
    /\ UNCHANGED <<restoreCall, scripts, wrapper, exc, bank, idx, readLocals,
                   writeLocals>>

\* the caller handles the exception of a raised cycle
Except ==
    /\ pc = "raised"
    /\ pc' = "idle"
    /\ call' = ""
    /\ exc' = ""
    /\ log' = << >>
    /\ cleared_dict' = EmptyDict
    /\ raw_read_content' = EmptyDict
    /\ UNCHANGED <<restoreCall, scripts, wrapper, ret, bank, idx, readLocals,
                   writeLocals>>

(***************************************************************************)
(* request_modbus_data of log_modbus_to_database.py: the ResultSet of a    *)
(* read cycle is made ready for the database.                              *)
(***************************************************************************)
\* the decimal digits of high * 65536 + low, by long division
RECURSIVE Digits32(_, _)
Digits32(high, low) ==
    IF high = 0
    THEN Digits(low, 10)
    ELSE LET rest == (high % 10) * 65536 + low
         IN  Append(Digits32(high \div 10, rest \div 10), rest % 10)

\* str(x) of an int
StrInt(v) ==
    IF Len(v) = 2
    THEN LET d == Digits32(v[1], v[2])
         IN  Join([i \in 1..Len(d) |-> Decimal[d[i] + 1]])
    ELSE Join(FormatChars(v[1], Decimal))

\* str(x) of a bool
StrBool(b) == IF b = 1 THEN "True" ELSE "False"

\* str(val) of a value of a ResultSet
Str(value) ==
    CASE value.t = "str" -> value.s
      [] value.t = "bool" -> StrBool(value.v[1])
      [] value.t = "int" -> StrInt(value.v)
      [] value.t = "list" ->
             "[" \o JoinWith([i \in 1..Len(value.v) |->
                                Join(FormatChars(value.v[i], Decimal))],
                             ", ") \o "]"
      [] value.t = "blist" ->
             "[" \o JoinWith([i \in 1..Len(value.v) |->
                                StrBool(value.v[i])], ", ") \o "]"

\* key.endswith(suffix)
EndsWith(key, suffix) ==
    /\ Len(key) >= Len(suffix)
    /\ SubSeq(key, Len(key) - Len(suffix) + 1, Len(key)) = suffix

\* the keys the loop of request_modbus_data works on
RequestKeys(content_dict) ==
    {key \in DOMAIN content_dict : ~EndsWith(key, "_HUMAN")}

\* the value of cleared_dict for a key: the restored form, or str(val)
\* when nothing is restored
RequestValue(key, val) ==
    LET restored == restore_human_readable_content(key, val).s
    IN  IF restored # ""
        THEN PyStr(restored)
        ELSE IF val.t # "str" THEN PyStr(Str(val)) ELSE val

\* the restorer is called without try/except: its exception leaves
\* request_modbus_data
RequestRaises(content_dict) ==
    \E key \in RequestKeys(content_dict) :
        restore_human_readable_content(key, content_dict[key]).raised

\* the two dicts request_modbus_data returns
RequestCleared(content_dict) ==
    [key \in RequestKeys(content_dict) |->
       RequestValue(key, content_dict[key])]

RequestRaw(content_dict) ==
    [key \in RequestKeys(content_dict) |-> content_dict[key]]

\* request_modbus_data, after the read cycle it started has returned its
\* ResultSet (which does not depend on check_expectation); the pair it
\* returns is (cleared_dict, raw_read_content)
request_modbus_data ==
    /\ pc = "returned"
    /\ call = "read_all_registers"
    /\ call' = "request_modbus_data"
    /\ IF RequestRaises(ret)
       THEN /\ pc' = "raised"
            /\ exc' = "Exception"
            /\ UNCHANGED requestData
       ELSE /\ cleared_dict' = RequestCleared(ret)
            /\ raw_read_content' = RequestRaw(ret)
            /\ UNCHANGED <<pc, exc>>
    /\ UNCHANGED <<restoreCall, scripts, wrapper, ret, log, bank, idx,
                   readLocals, writeLocals>>

Next ==
    \/ \E device_type \in DeviceTypes : setup_connection(device_type)
    \/ connect
    \/ disconnect
    \/ \E check \in BOOLEAN : read_all_registers(check)
    \/ read_coil_registers
    \/ read_hregs_registers
    \/ read_ists_registers
    \/ read_iregs_registers
    \/ ReadBankReturn
    \/ ReadBankSkip
    \/ ReadFinish
    \/ write_all_registers
    \/ write_coil_registers
    \/ write_hregs_registers
    \/ WriteBankReturn
    \/ WriteBankSkip
    \/ WriteFinish
    \/ request_modbus_data
    \/ Return
    \/ Except

Spec == Init /\ [][Next]_vars

(***************************************************************************)
(* A direct call of restore_human_readable_content(key, value) on a        *)
(* constructed wrapper: the method reads and changes nothing of the        *)
(* wrapper, it returns a string or raises.                                 *)
(***************************************************************************)
\* words a MAC address is made of: zero, small and large bytes
MacWordSamples == {0, 160, 17766, 20288, 2571, MaxWord}

\* the call restore_human_readable_content(key, value) is to be made
RestoreArgs(key, value) == restore_key = key /\ restore_value = value

\* the (key, value) pairs the restorer is called with: for every rule the
\* values of the type the rule is written for and a value of another
\* type, and a key without a rule
RestoreInputs ==
    \/ \E i \in (-MaxIndex)..MaxIndex :
          RestoreArgs("CHARGING_STATE_IREG", PyInt(i))
    \/ \E k \in {"DEVICE_MAC_IREG", "MAC_ADDRESS_HREG"} :
          \E w \in SeqsOver(MacWordSamples, 3) : RestoreArgs(k, PyList(w))
    \/ \E v \in 0..MaxWord : RestoreArgs("DIP_CONFIG_IREG", PyInt(v))
    \/ \E high \in 0..MaxWord : \E low \in {0, MaxWord} :
          RestoreArgs("FIRMWARE_VERSION_IREG", PyInt32(high, low))
    \/ \E k \in {"CHARGING_STATE_IREG", "DIP_CONFIG_IREG",
                 "FIRMWARE_VERSION_IREG", "TEMP_IREG"} :
          RestoreArgs(k, PyList(MacWords))
    \/ \E k \in {"DEVICE_MAC_IREG", "MAC_ADDRESS_HREG", "TEMP_IREG"} :
          RestoreArgs(k, PyInt(5))

RestoreInit ==
    /\ file = FileSamples[1]
    /\ Constructed
    /\ RestoreInputs
    /\ restore_ret = ""
    /\ NoRequest
    /\ NoConvertCall
    /\ NoMain

\* the call: the rule of the key is applied to the value
RestoreCall ==
    /\ pc = "idle"
    /\ call' = "restore_human_readable_content"
    /\ LET r == restore_human_readable_content(restore_key, restore_value)
       IN  IF r.raised
           THEN /\ pc' = "raised"
                /\ exc' = "Exception"
                /\ restore_ret' = ""
           ELSE /\ pc' = "returned"
                /\ exc' = ""
                /\ restore_ret' = r.s
    /\ UNCHANGED <<wrapper, ret, log, bank, idx, readLocals, writeLocals,
                   restore_key, restore_value, requestData, scripts>>

RestoreNext == RestoreCall

RestoreSpec == RestoreInit /\ [][RestoreNext]_vars

(***************************************************************************)
(* convert_string_to_uint16t(content), and the restorer called with the    *)
(* words it returned under the key COMMIT_SHA_IREG.  A string is the       *)
(* sequence of its characters.                                             *)
(***************************************************************************)
\* characters of a commit SHA, and one with the largest 8-bit code
CharSamples == {"0", "7", "a", "f", Chr(255)}

\* ord(x)
Ord(x) == CHOOSE code \in 0..255 : Chr(code) = x

\* unicode_list, zip(it, it), (ele[0] << 8) | ele[1] for every tuple
convert_string_to_uint16t(chars) ==
    LET unicode_list == [i \in 1..Len(chars) |-> Ord(chars[i])]
        tuple_list == ZipPairs(unicode_list)
    IN  [g \in 1..Len(tuple_list) |->
           BitOr(ShiftLeft(tuple_list[g][1], 8), tuple_list[g][2])]

ConvertInit ==
    /\ file = FileSamples[1]
    /\ Constructed
    /\ NoRestoreCall
    /\ NoRequest
    /\ NoMain
    /\ \E n \in 0..MaxChars : content \in SeqsOver(CharSamples, n)

\* the call: the number list becomes the value the restorer is called with
ConvertCall ==
    /\ pc = "idle"
    /\ call = ""
    /\ call' = "convert_string_to_uint16t"
    /\ restore_key' = "COMMIT_SHA_IREG"
    /\ restore_value' = PyList(convert_string_to_uint16t(content))
    /\ UNCHANGED <<wrapper, pc, exc, ret, log, bank, idx, readLocals,
                   writeLocals, restore_ret, requestData, scripts>>

\* the restorer is called with the converted words
RestoreConverted ==
    /\ call = "convert_string_to_uint16t"
    /\ RestoreCall

ConvertNext == ConvertCall \/ RestoreConverted

ConvertSpec == ConvertInit /\ [][ConvertNext]_vars

(***************************************************************************)
(* main of log_modbus_to_database.py with an SQLite database in memory:    *)
(* the polling loop.  One iteration is one step; the read cycle of the     *)
(* iteration is the walk of read_all_registers taken at once, with the     *)
(* answers of the transport as its input.                                  *)
(***************************************************************************)
\* device info registers: the UUID in four words, the commit SHA in three
DeviceInfoFile ==
    RegisterFile(
      << >>,
      << >>,
      << >>,
      <<Reg("DEVICE_UUID_IREG", 80, 4), Reg("COMMIT_SHA_IREG", 84, 3)>>,
      {"IREGS"})

\* the register files main is run against (args.file)
LoggerFiles == {FileSamples[6], FileSamples[9], DeviceInfoFile}

\* the registers of a file in the order read_all_registers walks them
RECURSIVE WalkOrder(_, _)
WalkOrder(f, b) ==
    IF b > Len(ReadBankOrder)
    THEN << >>
    ELSE LET name == ReadBankOrder[b]
         IN  (IF name \in f.present
              THEN [i \in 1..Len(f.regs[name]) |->
                      [name |-> name, val |-> f.regs[name][i]]]
              ELSE << >>) \o WalkOrder(f, b + 1)

\* the cycle has ended with an exception
CycleRaised == [raised |-> TRUE, content |-> EmptyDict]

\* the cycle has returned the content
CycleReturned(content_dict) == [raised |-> FALSE, content |-> content_dict]

\* the outcomes of one pass of a read loop, over the answers the transport
\* may give: an exception for a register spec without a required field and
\* for an answer without data for a register of length 1, the entry of the
\* register otherwise
RegisterOutcomes(name, val) ==
    {IF \/ ~({"register", "len", "description"} \subseteq val.has)
        \/ DecodeRaises(val, response)
     THEN CycleRaised
     ELSE CycleReturned(BankEntry(name, val, FALSE, response).content) :
       response \in BankResponses(name, val.len)}

\* the outcomes of the walk over the first n registers: read_content
\* updated with the entry of every register, unless a pass raised
RECURSIVE WalkOutcomes(_, _)
WalkOutcomes(w, n) ==
    IF n = 0
    THEN {CycleReturned(EmptyDict)}
    ELSE {IF before.raised \/ this.raised
          THEN CycleRaised
          ELSE CycleReturned(DictUpdate(before.content, this.content)) :
            before \in WalkOutcomes(w, n - 1),
            this \in RegisterOutcomes(w[n].name, w[n].val)}

\* DBWrapper.generate_columns_names and the columns main adds
ColumnNames(f) ==
    LET w == WalkOrder(f, 1)
    IN  {w[i].val.key : i \in {j \in 1..Len(w) :
                                 {"register", "len", "description"}
                                     \subseteq w[j].val.has}}
        \cup {"TIMESTAMP", "DEVICE_UUID_IREG", "COMMIT_SHA_IREG"}

\* datetime.datetime.now(), at the turn of a year and shortly after it
ClockSamples ==
    {[year |-> 2026, month |-> 12, day |-> 31, hour |-> 23, minute |-> 59],
     [year |-> 2027, month |-> 1, day |-> 1, hour |-> 0, minute |-> 0],
     [year |-> 2027, month |-> 1, day |-> 1, hour |-> 0, minute |-> 1],
     [year |-> 2027, month |-> 1, day |-> 1, hour |-> 2, minute |-> 1]}

\* the choices of --backup
BackupIntervals == {"minute", "hour", "day", "month", "year"}

get_backup_time(interval, now) ==
    CASE interval = "minute" -> now.minute
      [] interval = "hour" -> now.hour
      [] interval = "day" -> now.day
      [] interval = "month" -> now.month
      [] interval = "year" -> now.year

\* save_info and output_folder is not None
SaveEnabled == save_info /\ output_folder # "None"

\* backup_and_create_new_db for a table of size rows: a table with content
\* is written to a file and a new, empty database is created
BackupWritten(rows) == rows > 0 /\ output_folder # "None"

LoggerInit ==
    /\ file \in LoggerFiles
    /\ Constructed
    /\ NoRestoreCall
    /\ NoRequest
    /\ NoConvertCall
    /\ backup_interval \in {"minute", "hour"}
    /\ save_info \in BOOLEAN
    /\ output_folder \in {"None", "folder"}
    /\ request_iterations \in 1..MaxIterations
    /\ main_pc = "start"
    /\ iteration = 0
    /\ this_time = 0
    /\ last_backup_time = 0
    /\ table_size = 0
    /\ backups = 0
    /\ db_open = FALSE

\* main up to the loop: the database is set up, the backup time is taken,
\* the connection is set up (exit(-1) when that fails) and opened
MainStart ==
    /\ main_pc = "start"
    /\ db_open' = TRUE
    /\ table_size' = 0
    /\ \E now \in ClockSamples :
          /\ this_time' = get_backup_time(backup_interval, now)
          /\ last_backup_time' = get_backup_time(backup_interval, now)
    /\ \E device_type \in DeviceTypes :
          IF device_type \in {"tcp", "rtu"}
          THEN /\ client' = "client"
               /\ main_pc' = "loop"
               /\ \E ok \in BOOLEAN :
                     /\ connection' = ConnectResult(ok)
                     /\ transport_open' = ok
          ELSE /\ main_pc' = "exited"
               /\ UNCHANGED <<client, connection, transport_open>>
    /\ UNCHANGED <<file, self_read_content, pc, call, exc, ret, log, bank,
                   idx, readLocals, writeLocals, restoreCall, requestData,
                   convertCall, mainArgs, iteration, backups>>

\* the outcomes of the read cycle of an iteration: an exception, or the
\* ResultSet; the empty dict when no connection could be opened (not ok)
CycleResults(ok) ==
    IF ~(GuardPasses \/ ok)
    THEN {CycleReturned(EmptyDict)}
    ELSE LET w == WalkOrder(file, 1)
         IN  WalkOutcomes(w, Len(w))

\* the outcome of request_modbus_data for the outcome of its read cycle
RequestOutcome(result) ==
    IF result.raised
    THEN [raised |-> TRUE, by |-> "read_all_registers",
          cleared |-> EmptyDict, raw |-> EmptyDict]
    ELSE IF RequestRaises(result.content)
    THEN [raised |-> TRUE, by |-> "request_modbus_data",
          cleared |-> EmptyDict, raw |-> EmptyDict]
    ELSE [raised |-> FALSE, by |-> "",
          cleared |-> RequestCleared(result.content),
          raw |-> RequestRaw(result.content)]

\* one iteration of the while loop.  The read cycle reconnects when the
\* connection is False and returns the empty dict when that fails; an
\* exception of the cycle or of the restorer called by request_modbus_data
\* is caught nowhere in main and ends it.
Iteration ==
    /\ main_pc = "loop"
    /\ iteration < request_iterations
    /\ iteration' = iteration + 1
    /\ \E ok \in BOOLEAN :
        \E result \in CycleResults(ok) :
        \E request \in {RequestOutcome(result)} :
        \E now \in ClockSamples :
          LET walks == GuardPasses \/ ok
              modbus_data == request.cleared
              inserted == Cardinality(DOMAIN modbus_data \cup {"TIMESTAMP"})
                              = Cardinality(ColumnNames(file))
              rows == IF inserted THEN table_size + 1 ELSE table_size
              time == get_backup_time(backup_interval, now)
              backup == (last_backup_time + 1 = time) /\ SaveEnabled
          IN  /\ this_time' = time
              /\ IF ~walks
                 THEN /\ connection' = ConnectResult(FALSE)
                      /\ transport_open' = FALSE
                      /\ UNCHANGED self_read_content
                 ELSE IF result.raised
                 THEN /\ connection' = IF GuardPasses THEN connection
                                       ELSE ConnectResult(TRUE)
                      /\ transport_open' = IF GuardPasses THEN transport_open
                                           ELSE TRUE
                      /\ UNCHANGED self_read_content
                 ELSE /\ connection' = CloseResult
                      /\ transport_open' = FALSE
                      /\ self_read_content' = result.content
              /\ IF request.raised
                 THEN /\ main_pc' = "aborted"
                      /\ pc' = "raised"
                      /\ call' = request.by
                      /\ exc' = "Exception"
                      /\ UNCHANGED <<ret, requestData, last_backup_time,
                                     table_size, backups>>
                 ELSE /\ main_pc' = IF iteration' = request_iterations
                                    THEN "closing" ELSE "loop"
                      /\ ret' = result.content
                      /\ cleared_dict' = modbus_data
                      /\ raw_read_content' = request.raw
                      /\ last_backup_time' = IF backup THEN time
                                             ELSE last_backup_time
                      /\ table_size' = IF backup /\ BackupWritten(rows)
                                       THEN 0 ELSE rows
                      /\ backups' = IF backup /\ BackupWritten(rows)
                                    THEN backups + 1 ELSE backups
                      /\ UNCHANGED <<pc, call, exc>>
    /\ UNCHANGED <<file, client, log, bank, idx, readLocals, writeLocals,
                   restoreCall, convertCall, mainArgs, db_open>>

\* except KeyboardInterrupt: the user ends the loop between two iterations
KeyboardInterrupt ==
    /\ main_pc = "loop"
    /\ main_pc' = "closing"
    /\ UNCHANGED <<wrapper, pc, call, exc, ret, log, bank, idx, readLocals,
                   writeLocals, restoreCall, requestData, convertCall,
                   mainArgs, iteration, this_time, last_backup_time,
                   table_size, backups, db_open>>

\* main after the loop: the latest data is backed up and the connection to
\* the database is closed
MainFinish ==
    /\ main_pc = "closing"
    /\ main_pc' = "done"
    /\ db_open' = FALSE
    /\ IF SaveEnabled /\ BackupWritten(table_size)
       THEN table_size' = 0 /\ backups' = backups + 1
       ELSE UNCHANGED <<table_size, backups>>
    /\ UNCHANGED <<wrapper, pc, call, exc, ret, log, bank, idx, readLocals,
                   writeLocals, restoreCall, requestData, convertCall,
                   mainArgs, iteration, this_time, last_backup_time>>

LoggerNext ==
    \/ MainStart
    \/ Iteration
    \/ KeyboardInterrupt
    \/ MainFinish

LoggerSpec == LoggerInit /\ [][LoggerNext]_vars

(***************************************************************************)
(* Properties.                                                             *)
(***************************************************************************)
ReadOps == {"read_coils", "read_holding_registers", "read_discrete_inputs",
            "read_input_registers"}

WriteOps == {"write_coil", "write_register"}

BitOps == {"read_coils", "read_discrete_inputs"}

WordOps == {"read_holding_registers", "read_input_registers"}

\* the keys restore_human_readable_content has a rule for
SpecialKeys == {"CHARGING_STATE_IREG", "COMMIT_SHA_IREG", "DEVICE_MAC_IREG",
                "DEVICE_UUID_IREG", "DIP_CONFIG_IREG",
                "FIRMWARE_VERSION_IREG", "MAC_ADDRESS_HREG"}

\* the register operations among the calls of the cycle
RegisterCalls == SelectSeq(log, LAMBDA c : c.op \in ReadOps \cup WriteOps)

\* the ResultSet of the read cycle as far as it is built, and as returned
ResultSet ==
    IF pc = "returned" THEN ret ELSE DictUpdate(read_content, register_content)

\* the FailureLog of the write cycle as far as it is built, and as returned
FailureLog ==
    IF pc = "returned" THEN ret ELSE DictUpdate(failed_reg_log, register_log)

\* a step of the read walk in which the transport answered a register read
ReadStep ==
    /\ pc = "read"
    /\ Len(log') = Len(log) + 1
    /\ log'[Len(log')].op \in ReadOps

\* the register spec the walk is at
CurrentVal(order) == file.regs[order[bank]][idx]

\* C1: a register of length 2 of a word bank (HREGS or IREGS) without a
\* special rule, answered with the two words w0 and w1, is stored under its
\* key as the single integer (w0 << 16) | w1
C1_TwoWordsAsInteger ==
    \A i \in 1..Len(log) :
        LET c == log[i]
        IN  ( /\ c.op \in WordOps
              /\ ~c.err
              /\ c.arg = 2
              /\ Len(c.data) = 2
              /\ c.key \notin SpecialKeys
              /\ c.key \in DOMAIN ResultSet )
            => ResultSet[c.key] = PyInt(c.data[1] * 65536 + c.data[2])

\* the write_register calls of the cycle made for a key, as (address,
\* value) pairs
WritesOf(key) ==
    LET calls == SelectSeq(log, LAMBDA c : c.op = "write_register"
                                           /\ c.key = key)
    IN  [i \in 1..Len(calls) |-> <<calls[i].address, calls[i].arg>>]

\* C2: write_hregs_registers emits for an entry with value v and length n
\* the two writes (address, v div 65535), (address + 1, v mod 65535) when
\* v > 65535 and n > 1, and the one write (address, v) otherwise
C2_HregsWriteSplit ==
    \A j \in 1..Len(file.regs["HREGS"]) :
        LET e == file.regs["HREGS"][j]
        IN  WritesOf(e.key) # << >>
            => WritesOf(e.key) =
                 IF e.val > 65535 /\ e.len > 1
                 THEN << <<e.register, e.val \div 65535>>,
                         <<e.register + 1, e.val % 65535>> >>
                 ELSE << <<e.register, e.val>> >>

\* C2 witness: a write cycle that wrote 70000 to the two-word register as
\* two writes and 65536 to the one-word register as one write
C2_Witness ==
    /\ pc = "returned"
    /\ Len(WritesOf("ENERGY_HREG")) = 2
    /\ WritesOf("LIMIT_HREG") = << <<42, 65536>> >>

\* C3: the two words written for a split value v, put together again by
\* the decoder's rule (high << 16) | low, give v
C3_SplitRoundTrip ==
    \A j \in 1..Len(file.regs["HREGS"]) :
        LET e == file.regs["HREGS"][j]
            w == WritesOf(e.key)
        IN  Len(w) = 2
            => DecodeIregs(2, <<w[1][2], w[2][2]>>) = PyInt(e.val)

\* a successful register read counts as a mismatch exactly when an expected
\* value is declared, is not -1 and differs from the decoded value
C4_Step ==
    (ReadStep /\ ~log'[Len(log')].err /\ pc' = "read")
    => LET val == CurrentVal(ReadBankOrder)
           value == register_content'[val.key]
           counted == invalid_reg_counter' - invalid_reg_counter
       IN  /\ counted \in {0, 1}
           /\ counted = 1 <=> ( /\ check_expectation
                                /\ "test" \in val.has
                                /\ ~PyEq(val.test, PyInt(-1))
                                /\ ~PyEq(val.test, value) )

\* C4: with validation requested a successfully read register is counted
\* as a mismatch exactly when its spec declares an expected value that is
\* not -1 and differs from the decoded value; without validation it is
\* never counted
C4_MismatchIffDeclared == [][C4_Step]_vars

\* C5: a register whose read is an error response is stored as false in
\* the bit banks and as -1 in the word banks
C5_ErrorSentinels ==
    \A i \in 1..Len(log) :
        LET c == log[i]
        IN  (c.op \in ReadOps /\ c.err /\ c.key \in DOMAIN ResultSet)
            => ResultSet[c.key] = IF c.op \in BitOps
                                  THEN PyBool(FALSE)
                                  ELSE PyInt(-1)

\* a register read answered with an error response adds one to the counter
C6_Step ==
    (ReadStep /\ log'[Len(log')].err)
    => /\ pc' = "read"
       /\ invalid_reg_counter' = invalid_reg_counter + 1

\* C6: a register read that is an error response adds exactly one to the
\* mismatch counter of its bank, in every bank, with and without
\* validation and whatever the expected value is
C6_ErrorCountsOnce == [][C6_Step]_vars

\* C6 witness: without validation, all four banks answered with an error
\* response and each was counted once
C6_Witness ==
    /\ pc = "read"
    /\ bank = 5
    /\ ~check_expectation
    /\ Len(log) = 4
    /\ \A i \in 1..4 : log[i].err
    /\ {log[i].op : i \in 1..4} = ReadOps
    /\ invalid_reg_content = 4

\* C7: a register key for which a transport write reported an error is in
\* the FailureLog, mapped to false
C7_FailedWriteLogged ==
    \A i \in 1..Len(log) :
        LET c == log[i]
        IN  (c.op \in WriteOps /\ c.err /\ pc \in {"write", "returned"})
            => /\ c.key \in DOMAIN FailureLog
               /\ FailureLog[c.key] = PyBool(FALSE)

\* the register operations a cycle over the file has to issue, in order
RECURSIVE Flatten(_)
Flatten(ss) == IF ss = << >> THEN << >> ELSE Head(ss) \o Flatten(Tail(ss))

IsPrefix(a, b) == Len(a) <= Len(b) /\ a = SubSeq(b, 1, Len(a))

ReadOpOf(name) ==
    CASE name = "COILS" -> "read_coils"
      [] name = "HREGS" -> "read_holding_registers"
      [] name = "ISTS" -> "read_discrete_inputs"
      [] name = "IREGS" -> "read_input_registers"

ExpectedReads ==
    Flatten([b \in 1..4 |->
        LET name == <<"COILS", "HREGS", "ISTS", "IREGS">>[b]
            regs == IF name \in file.present THEN file.regs[name] ELSE << >>
        IN  [j \in 1..Len(regs) |->
                <<ReadOpOf(name), regs[j].key, regs[j].register>>]])

ExpectedWrites ==
    LET coils == IF "COILS" \in file.present
                 THEN file.regs["COILS"] ELSE << >>
        hregs == IF "HREGS" \in file.present
                 THEN file.regs["HREGS"] ELSE << >>
    IN  [j \in 1..Len(coils) |->
            <<"write_coil", coils[j].key, coils[j].register>>]
        \o Flatten([j \in 1..Len(hregs) |->
             IF hregs[j].val > 65535 /\ hregs[j].len > 1
             THEN << <<"write_register", hregs[j].key, hregs[j].register>>,
                     <<"write_register", hregs[j].key,
                       hregs[j].register + 1>> >>
             ELSE << <<"write_register", hregs[j].key,
                       hregs[j].register>> >>])

IssuedOps ==
    [i \in 1..Len(RegisterCalls) |->
        <<RegisterCalls[i].op, RegisterCalls[i].key,
          RegisterCalls[i].address>>]

\* the cycle went through the walk and returned, it was not stopped at
\* the entry guard (which leaves the connection False)
WalkReturned == pc = "returned" /\ connection # "False"

C9_AbortWhenNotConnected ==
    ( /\ pc \in {"returned", "raised"}
      /\ \/ client = "None"
         \/ log # << >> /\ log[1].op = "connect" /\ log[1].err )
    => /\ pc = "returned"
       /\ ret = EmptyDict
       /\ RegisterCalls = << >>

\* C10: a cycle that issued a register operation ends with the transport
\* closed: close is the last call of the cycle, also when the walk raised
C10_CycleEndsClosed ==
    (pc \in {"returned", "raised"} /\ RegisterCalls # << >>)
    => log[Len(log)].op = "close"

\* the bank a read operation belongs to
BankOfOp(op) ==
    CASE op = "read_coils" -> "COILS"
      [] op = "read_holding_registers" -> "HREGS"
      [] op = "read_discrete_inputs" -> "ISTS"
      [] op = "read_input_registers" -> "IREGS"
      [] op = "write_coil" -> "COILS"
      [] op = "write_register" -> "HREGS"

\* the keys a read cycle may store for the registers of a bank: the
\* register keys and their human readable twins
KeysOfBank(name) ==
    {file.regs[name][j].key : j \in 1..Len(file.regs[name])}
    \cup {file.regs[name][j].key \o "_HUMAN" : j \in 1..Len(file.regs[name])}

\* no read is issued for a bank the map does not declare and every entry
\* of the ResultSet comes from a declared bank
C11_State ==
    call = "read_all_registers"
    => /\ \A i \in 1..Len(RegisterCalls) :
             BankOfOp(RegisterCalls[i].op) \in file.present
       /\ \A k \in DOMAIN ResultSet :
             \E name \in file.present : k \in KeysOfBank(name)

\* the walk goes past a bank the map does not declare without an error,
\* and from behind the last bank the cycle returns
C11_Step ==
    /\ ( /\ pc = "read"
         /\ bank \in 1..Len(ReadBankOrder)
         /\ ReadBankOrder[bank] \notin file.present )
       => (pc' = "read" /\ bank' = bank + 1 /\ log' = log)
    /\ (pc = "read" /\ bank = Len(ReadBankOrder) + 1)
       => (pc' = "returned" /\ ret' = read_content)

\* C11: whichever of the four banks the register map declares (any subset,
\* none included), the read cycle passes every absent bank without an
\* error and without a transport read, returns from behind the last bank,
\* and its ResultSet holds entries of declared banks only
C11_AnySubsetOfBanks == [](C11_State) /\ [][C11_Step]_vars

\* C11 witness: a read cycle over a map that declares HREGS and IREGS only
\* returned after its three register reads, with a non-empty ResultSet
C11_Witness ==
    /\ pc = "returned"
    /\ call = "read_all_registers"
    /\ file.present = {"HREGS", "IREGS"}
    /\ Len(RegisterCalls) = 3
    /\ DOMAIN ret = {"ENERGY_HREG", "LIMIT_HREG", "POWER_IREG"}

\* the place of a bank in the order coils, holding registers, discrete
\* inputs, input registers
BankRank(name) ==
    CASE name = "COILS" -> 1
      [] name = "HREGS" -> 2
      [] name = "ISTS" -> 3
      [] name = "IREGS" -> 4

\* C12: in a read cycle every transport read of an earlier bank (in the
\* order coils, holding registers, discrete inputs, input registers) is
\* issued before any transport read of a later bank, whatever the order
\* of the bank keys in the register map is
C12_FixedBankOrder ==
    call = "read_all_registers"
    => \A i, j \in 1..Len(RegisterCalls) :
          i < j => BankRank(BankOfOp(RegisterCalls[i].op))
                   <= BankRank(BankOfOp(RegisterCalls[j].op))

\* C12 witness: a read cycle over a map whose bank keys are written in the
\* order IREGS, ISTS, HREGS, COILS read all four banks, coils first and
\* input registers last
C12_Witness ==
    /\ call = "read_all_registers"
    /\ file.keys = <<"IREGS", "ISTS", "HREGS", "COILS">>
    /\ Len(RegisterCalls) = 4
    /\ RegisterCalls[1].op = "read_coils"
    /\ RegisterCalls[4].op = "read_input_registers"

\* the register keys of a bank the map declares
RegisterKeys(name) ==
    IF name \in file.present
    THEN {file.regs[name][j].key : j \in 1..Len(file.regs[name])}
    ELSE {}

\* only write_coil for entries of COILS and write_register for entries of
\* HREGS are issued, and only their keys are in the FailureLog
C13_State ==
    call = "write_all_registers"
    => /\ \A i \in 1..Len(RegisterCalls) :
             LET c == RegisterCalls[i]
             IN  \/ c.op = "write_coil" /\ c.key \in RegisterKeys("COILS")
                 \/ c.op = "write_register" /\ c.key \in RegisterKeys("HREGS")
       /\ \A k \in (RegisterKeys("ISTS") \cup RegisterKeys("IREGS"))
                   \ (RegisterKeys("COILS") \cup RegisterKeys("HREGS")) :
             /\ k \notin DOMAIN FailureLog
             /\ \A i \in 1..Len(log) : log[i].key # k

\* behind the holding registers the write cycle ends: it disconnects and
\* returns the FailureLog, whether or not the map declares ISTS or IREGS
C13_Step ==
    (pc = "write" /\ bank > 2)
    => /\ pc' = "returned"
       /\ ret' = failed_reg_log
       /\ \A i \in 1..Len(log') : i > Len(log) => log'[i].op = "close"

\* C13: the write cycle issues write_coil for entries of COILS and
\* write_register for entries of HREGS and no other register operation;
\* discrete inputs and input registers in the map are passed over without
\* an error, and a key that occurs only in them is never in the FailureLog
C13_ReadOnlyBanksNotWritten == [](C13_State) /\ [][C13_Step]_vars

\* C13 witness: a write cycle over a map that declares all four banks
\* returned after one write_coil and one write_register, both failed
C13_Witness ==
    /\ pc = "returned"
    /\ call = "write_all_registers"
    /\ file.present = BankNames
    /\ RegisterKeys("ISTS") # {}
    /\ RegisterKeys("IREGS") # {}
    /\ Len(RegisterCalls) = 2
    /\ DOMAIN ret = {"RELAY_COIL", "SETPOINT_HREG"}

\* the value the bank of a word read decodes the answer to, whatever the
\* register key is
GenericDecoded(c) ==
    IF c.op = "read_holding_registers"
    THEN DecodeHregs(c.arg, c.data)
    ELSE DecodeIregs(c.arg, c.data)

\* the successful word reads of the read cycle whose value is in the
\* ResultSet
StoredWordReads ==
    {i \in 1..Len(log) : /\ call = "read_all_registers"
                         /\ log[i].op \in WordOps
                         /\ ~log[i].err
                         /\ log[i].key \in DOMAIN ResultSet}

\* C14: for every successfully read holding or input register the
\* ResultSet holds under the register key the decoded value of the bank,
\* the same for a key with and without a human readable form, and holds
\* the key <key>_HUMAN exactly when the restorer returns a non-empty string
\* for the key and the decoded value (then with that string)
C14_RawValueAndTwin ==
    \A i \in StoredWordReads :
        LET c == log[i]
            decoded == GenericDecoded(c)
            r == restore_human_readable_content(c.key, decoded)
            twin == c.key \o "_HUMAN"
        IN  /\ ResultSet[c.key] = decoded
            /\ twin \in DOMAIN ResultSet <=> (~r.raised /\ r.s # "")
            /\ twin \in DOMAIN ResultSet => ResultSet[twin] = PyStr(r.s)

\* C14 witness: a read cycle returned the words of MAC_ADDRESS_HREG as
\* they were read together with their human readable form
C14_Witness ==
    /\ pc = "returned"
    /\ StoredWordReads # {}
    /\ "MAC_ADDRESS_HREG_HUMAN" \in DOMAIN ret
    /\ ret["MAC_ADDRESS_HREG"] = PyList(MacWords)
    /\ ret["MAC_ADDRESS_HREG_HUMAN"] = PyStr("A0:45:66:4F:40")

\* the restorer raises on the value a word read is decoded to
RestorerFails(c) ==
    restore_human_readable_content(c.key, GenericDecoded(c)).raised

\* a register read whose decoded value makes the restorer fail: the read
\* function goes on, the decoded value is stored under the key and without
\* a twin, and the counter grows as the expectation check alone decides
C15_Step ==
    ( /\ ReadStep
      /\ log'[Len(log')].op \in WordOps
      /\ ~log'[Len(log')].err
      /\ ~DecodeRaises(CurrentVal(ReadBankOrder), log'[Len(log')])
      /\ RestorerFails(log'[Len(log')]) )
    => LET val == CurrentVal(ReadBankOrder)
           decoded == GenericDecoded(log'[Len(log')])
       IN  /\ pc' = "read"
           /\ bank' = bank
           /\ idx' = idx + 1
           /\ register_content'[val.key] = decoded
           /\ (val.key \o "_HUMAN") \notin DOMAIN register_content'
           /\ invalid_reg_counter' - invalid_reg_counter =
                IF Mismatch(check_expectation, ExpectedVal(val), decoded)
                THEN 1 ELSE 0

\* a read cycle that returned from the walk issued every read of the map
\* also when the restorer failed on one of the values
C15_State ==
    ( /\ call = "read_all_registers"
      /\ WalkReturned
      /\ \E i \in StoredWordReads : RestorerFails(log[i]) )
    => /\ IssuedOps = ExpectedReads
       /\ \A i \in StoredWordReads :
             RestorerFails(log[i])
             => /\ ret[log[i].key] = GenericDecoded(log[i])
                /\ (log[i].key \o "_HUMAN") \notin DOMAIN ret

\* C15: when the restorer fails on the decoded value of a field during a
\* read cycle, the decoded value is still stored under the register key,
\* no <key>_HUMAN is stored for it, the mismatch counter grows only as the
\* expectation check of the value decides, and the registers and banks
\* behind the field are still read
C15_RestoreFailureConfined == [](C15_State) /\ [][C15_Step]_vars

\* C15 witness: a read cycle returned with the charging state 7, for which
\* the restorer has no label, stored without a twin, and with the register
\* behind it read
C15_Witness ==
    /\ pc = "returned"
    /\ call = "read_all_registers"
    /\ Len(RegisterCalls) = 2
    /\ RegisterCalls[1].key = "CHARGING_STATE_IREG"
    /\ RestorerFails(RegisterCalls[1])
    /\ ret["CHARGING_STATE_IREG"] = PyInt(7)
    /\ "CHARGING_STATE_IREG_HUMAN" \notin DOMAIN ret
    /\ RegisterCalls[2].key = "TEMP_IREG"
    /\ "TEMP_IREG" \in DOMAIN ret

\* the direct call of the restorer for a key has ended
RestoreEnded(key) ==
    /\ call = "restore_human_readable_content"
    /\ pc \in {"returned", "raised"}
    /\ restore_key = key

\* the state labels A..F
ChargingLabels == <<"A", "B", "C", "D", "E", "F">>

\* C16: the restorer of CHARGING_STATE_IREG returns the i-th of the six
\* labels A..F for an index 0 <= i <= 5, returns "unknown" for the index 6
\* only, and raises for every other integer index, the negative ones
\* included
C16_EnumRestorer ==
    (RestoreEnded("CHARGING_STATE_IREG") /\ IsInt(restore_value))
    => LET i == restore_value.v[1]
           N == Len(ChargingLabels)
       IN  /\ (0 <= i /\ i <= N - 1)
              => (pc = "returned" /\ restore_ret = ChargingLabels[i + 1])
           /\ i = N => (pc = "returned" /\ restore_ret = "unknown")
           /\ (i > N \/ i < 0) => pc = "raised"

\* the read cycle over the map {IREGS: {DEVICE_MAC_IREG: register 10,
\* len 3}} returned after the transport answered with the MAC words
MacScenario ==
    /\ call = "read_all_registers"
    /\ pc = "returned"
    /\ file.present = {"IREGS"}
    /\ file.regs["IREGS"] = <<Reg("DEVICE_MAC_IREG", 10, 3)>>
    /\ Len(RegisterCalls) = 1
    /\ ~RegisterCalls[1].err
    /\ RegisterCalls[1].data = MacWords

\* C17: the read cycle over the map {IREGS: {DEVICE_MAC_IREG: register 10,
\* len 3}} answered with the words 0x00A0, 0x4566, 0x4F40 returns
\* DEVICE_MAC_IREG as the unchanged list of the three words and
\* DEVICE_MAC_IREG_HUMAN as the string "a0:45:66:40"
C17_MacEndToEnd ==
    MacScenario
    => /\ ret["DEVICE_MAC_IREG"] = PyList(MacWords)
       /\ "DEVICE_MAC_IREG_HUMAN" \in DOMAIN ret
       /\ ret["DEVICE_MAC_IREG_HUMAN"] = PyStr("a0:45:66:40")

\* a byte as exactly two upper case hex digits
HexByte(b) == Join(ZeroPadded(FormatChars(b, UpperHex), 2))

\* the canonical string of the 6-byte MAC address three words encode, high
\* byte then low byte of each word: six groups of two hex digits
CanonicalMac(words) ==
    JoinWith([g \in 1..(2 * Len(words)) |->
                LET w == words[(g + 1) \div 2]
                IN  HexByte(IF g % 2 = 1 THEN w \div 256 ELSE w % 256)],
             ":")

\* C18: for every list of three words the restorer of MAC_ADDRESS_HREG
\* returns the canonical string of the six bytes the words encode: six
\* colon-separated groups of exactly two hex digits, one per byte in
\* order, also for words with zero or small bytes
C18_MacCanonical ==
    ( /\ RestoreEnded("MAC_ADDRESS_HREG")
      /\ IsList(restore_value)
      /\ Len(restore_value.v) = 3 )
    => /\ pc = "returned"
       /\ restore_ret = CanonicalMac(restore_value.v)

\* bit i (0 the least significant) of a non-negative integer
RECURSIVE BitOf(_, _)
BitOf(n, i) == IF i = 0 THEN n % 2 ELSE BitOf(n \div 2, i - 1)

\* the ten characters for the bits 0..9 of a value, least significant
\* bit first
TenBitsLsbFirst(n) == Join([i \in 1..10 |-> Binary[BitOf(n, i - 1) + 1]])

\* C19: for every decoded register value v in 0..65535 the restorer of
\* DIP_CONFIG_IREG returns a string of exactly 10 characters 0 or 1 whose
\* character at position i (counted from 0 at the left) is bit i of v
C19_DipTenBits ==
    ( /\ RestoreEnded("DIP_CONFIG_IREG")
      /\ IsInt(restore_value)
      /\ Len(restore_value.v) = 1
      /\ restore_value.v[1] \in 0..MaxWord )
    => /\ pc = "returned"
       /\ restore_ret = TenBitsLsbFirst(restore_value.v[1])

\* the upper 16 bits of a value of at most 32 bits
UpperWord(value) ==
    IF Len(value.v) = 2 THEN value.v[1] ELSE value.v[1] \div 65536

\* the dotted string of three non-negative integers
Dotted(major, minor, patch) ==
    Join(FormatChars(major, Decimal)) \o "."
    \o Join(FormatChars(minor, Decimal)) \o "."
    \o Join(FormatChars(patch, Decimal))

\* C20: for every 32-bit value v the restorer of FIRMWARE_VERSION_IREG
\* returns the dotted string major.minor.patch of the one triple of
\* non-negative integers with major * 10000 + minor * 100 + patch = v >> 16,
\* minor <= 99 and patch <= 99; it is the string returned for the value
\* with the lower 16 bits cleared
C20_FirmwareVersion ==
    (RestoreEnded("FIRMWARE_VERSION_IREG") /\ IsInt(restore_value))
    => LET upper == UpperWord(restore_value)
           major == upper \div 10000
           minor == (upper % 10000) \div 100
           patch == upper % 100
       IN  /\ pc = "returned"
           /\ restore_ret = Dotted(major, minor, patch)
           /\ restore_ret =
                restore_human_readable_content(restore_key,
                                               PyInt32(upper, 0)).s

\* C20 witness: the largest 32-bit value, 0xFFFFFFFF, restored to 6.55.35
C20_Witness ==
    /\ RestoreEnded("FIRMWARE_VERSION_IREG")
    /\ restore_value = PyInt32(MaxWord, MaxWord)
    /\ restore_ret = "6.55.35"

\* the successful register reads of the read cycle whose value is in the
\* ResultSet
StoredReads ==
    {i \in 1..Len(log) : /\ call = "read_all_registers"
                         /\ log[i].op \in ReadOps
                         /\ ~log[i].err
                         /\ log[i].key \in DOMAIN ResultSet}

\* C21: for a register of declared length 1, in each of the four banks,
\* the value stored after a successful read is the first element of the
\* answer itself, a boolean in the bit banks and an integer in the word
\* banks, never a list of one element
C21_LengthOneIsFirstElement ==
    \A i \in StoredReads :
        LET c == log[i]
        IN  c.arg = 1
            => ResultSet[c.key] = IF c.op \in BitOps
                                  THEN PyBool(c.data[1] = 1)
                                  ELSE PyInt(c.data[1])

\* C21 witness: a read cycle over four banks with one register of length 1
\* each returned, every read answered with data
C21_Witness ==
    /\ pc = "returned"
    /\ Len(RegisterCalls) = 4
    /\ StoredReads = {i \in 1..Len(log) : log[i].op \in ReadOps}
    /\ {log[i].op : i \in StoredReads} = ReadOps
    /\ \A i \in StoredReads : log[i].arg = 1
    /\ ret["RELAY_COIL"] = PyBool(TRUE)
    /\ ret["TEMP_IREG"] = PyInt(7)

\* the list rule applies to the answer of a read: every length above 1,
\* but in the input registers not a length of 2 answered with two words
ListRuleApplies(c) ==
    /\ c.arg > 1
    /\ ~(c.op = "read_input_registers" /\ c.arg = 2 /\ Len(c.data) = 2)

\* a read step answered with more elements than the length under the
\* list rule stores the first elements and goes on
C22_Step ==
    ( /\ ReadStep
      /\ ~log'[Len(log')].err
      /\ ListRuleApplies(log'[Len(log')])
      /\ Len(log'[Len(log')].data) > log'[Len(log')].arg )
    => LET c == log'[Len(log')]
       IN  /\ pc' = "read"
           /\ register_content'[c.key] =
                IF c.op \in BitOps
                THEN PyBoolList(SubSeq(c.data, 1, c.arg))
                ELSE PyList(SubSeq(c.data, 1, c.arg))

C23_StoredContentIsReturned ==
    (pc = "returned" /\ call = "read_all_registers")
    => self_read_content = ret

ListFields == {"DEVICE_UUID_IREG", "DEVICE_MAC_IREG", "COMMIT_SHA_IREG"}

\* the successful reads of a list-valued special field declared with two
\* registers and answered with two words
ListFieldReads ==
    {i \in StoredReads : /\ log[i].op = "read_input_registers"
                         /\ log[i].key \in ListFields
                         /\ log[i].arg = 2
                         /\ Len(log[i].data) = 2}

\* C24: for DEVICE_UUID_IREG, DEVICE_MAC_IREG and COMMIT_SHA_IREG declared
\* with length 2 in the input-register bank the value stored under the key
\* is the list of the two raw words, not their 32-bit reconstruction, and
\* the _HUMAN twin of the field's rule is in the ResultSet; for the UUID
\* field the twin is the lowercase hex of (w0 << 16) | w1
C24_ListFieldsKeepRawWords ==
    \A i \in ListFieldReads :
        LET c == log[i]
            human == c.key \o "_HUMAN"
        IN  /\ ResultSet[c.key] = PyList(c.data)
            /\ human \in DOMAIN ResultSet
            /\ c.key = "DEVICE_UUID_IREG" =>
                   ResultSet[human] = PyStr(Hex32(c.data[1], c.data[2]))

\* C25: over any sequence of setup_connection, connect, disconnect,
\* read_all_registers and write_all_registers on one wrapper, every
\* register read or write is issued to the transport while its connection
\* is open, after a connect that returned true and before the next close
C25_TransportAccessOnlyWhileOpen ==
    \A i \in 1..Len(RegisterCalls) : RegisterCalls[i].open

\* C26: every value write_hregs_registers hands to one write_register call
\* of the transport fits a 16-bit register, for every holding-register
\* entry with a write value of at most 32 bits and any declared length
C26_WrittenValueFitsRegister ==
    \A i \in 1..Len(log) :
        log[i].op = "write_register" => log[i].arg \in 0..MaxWord

\* the restorer has returned the string of the converted words
ConvertRestored ==
    /\ call = "restore_human_readable_content"
    /\ restore_key = "COMMIT_SHA_IREG"
    /\ pc = "returned"

\* C27: for every string s with character codes below 256, restoring the
\* words of convert_string_to_uint16t(s) with the COMMIT_SHA_IREG rule
\* gives back s: no character is lost, for even and for odd length, and
\* for even length there are len(s)/2 words, each in 0..65535
C27_CommitShaRoundTrip ==
    ConvertRestored =>
        /\ restore_ret = Join(content)
        /\ Len(content) % 2 = 0 =>
               /\ Len(restore_value.v) = Len(content) \div 2
               /\ \A i \in 1..Len(restore_value.v) :
                      restore_value.v[i] \in 0..MaxWord

\* the reads of the cycle that failed, when request_modbus_data has
\* returned its two dicts
FailedReadsRequested ==
    {i \in 1..Len(log) : /\ call = "request_modbus_data"
                         /\ pc = "returned"
                         /\ log[i].op \in ReadOps
                         /\ log[i].err}

\* C28: in request_modbus_data a register whose read failed in the cycle
\* is reported as its error sentinel, as the sentinel itself in the raw
\* data and as the string form of the sentinel in the cleaned data: no
\* human-readable value is derived from an error sentinel, whatever the key
C28_ErrorSentinelReported ==
    \A i \in FailedReadsRequested :
        LET key == log[i].key
        IN  /\ raw_read_content[key] = ret[key]
            /\ cleared_dict[key] = PyStr(Str(ret[key]))

\* C29: the polling loop is never ended by the failure of a restorer rule
\* on one field: whatever ResultSet the read cycle returned,
\* request_modbus_data completes and main goes on to the remaining
\* iterations and to the closing of the database connection
C29_LoopSurvivesRestorerFailure ==
    ~(main_pc = "aborted" /\ call = "request_modbus_data")

\* an iteration of the loop has run to its end with saving enabled, and
\* the backup time it observed differs from the one of the last backup
RolloverObserved ==
    /\ main_pc = "loop"
    /\ iteration' = iteration + 1
    /\ main_pc' \in {"loop", "closing"}
    /\ SaveEnabled
    /\ this_time' # last_backup_time

C30_Step ==
    RolloverObserved =>
        /\ last_backup_time' = this_time'
        /\ table_size' = 0
        /\ table_size > 0 => backups' = backups + 1

\* C30: with saving enabled and an output folder given, an iteration that
\* observes a backup time different from the one of the last backup (a
\* rollover of the unit, a wrap-around or a jump of several units) backs
\* the in-memory database up and takes the observed time as the time of the
\* last backup
C30_BackupOnEveryRollover == [][C30_Step]_vars

====
